---- MODULE Spec2Model ----
(***************************************************************************)
(* A model of onellm's chat-completion facade (onellm/chat_completion.py): *)
(* ChatCompletion.create / acreate, the capability negotiation of          *)
(* ChatCompletion._process_capabilities, and the fallback orchestration    *)
(* the facade hands the request to (get_provider_with_fallbacks and the    *)
(* provider it returns; validators and providers are collaborators whose   *)
(* code is not part of chat_completion.py and are modelled from the        *)
(* written specification).                                                 *)
(*                                                                         *)
(* Python values are modelled as follows.                                  *)
(*   str            a sequence of tokens; " " and "\n" are whitespace, and *)
(*                  "json" / "JSON" are occurrences of that word           *)
(*   content        [kind, text, items]: kind "str" uses text, kind "list" *)
(*                  uses items (a sequence of content items)               *)
(*   content item   [type, text]; text is used by type "text" only         *)
(*   message        [role, content]                                        *)
(*   dict (kwargs)  a set of [key, value] pairs with distinct keys         *)
(*   Optional[list] [isNone, list]                                         *)
(***************************************************************************)
EXTENDS Naturals, Sequences, FiniteSets

(***************************************************************************)
(* Bounds of the model                                                     *)
(***************************************************************************)
\* most messages in a conversation
MaxMsgs == 2
\* most content items in one conversation
MaxItems == 2
\* largest retries argument
MaxRetries == 2
\* longest caller-supplied fallback_models list
MaxFallbacks == 1
\* most chunks a streamed response yields
MaxChunks == 2
\* orchestrations resolving providers at the same time
MaxOrchestrations == 2

(***************************************************************************)
(* Strings                                                                 *)
(***************************************************************************)
IsSpace(c) == c \in {" ", "\n"}

\* str.lower(): the only upper-case token of the model is "JSON"
Lower(s) == [i \in DOMAIN s |-> IF s[i] = "JSON" THEN "json" ELSE s[i]]

\* "json" in s
ContainsJson(s) == \E i \in DOMAIN s : s[i] = "json"

RECURSIVE LStrip(_)
LStrip(s) == IF s # <<>> /\ IsSpace(Head(s)) THEN LStrip(Tail(s)) ELSE s

RECURSIVE RStrip(_)
RStrip(s) ==
    IF s # <<>> /\ IsSpace(s[Len(s)]) THEN RStrip(SubSeq(s, 1, Len(s) - 1)) ELSE s

\* str.strip()
Strip(s) == RStrip(LStrip(s))

\* " Please provide your response in valid JSON format."
JsonInstructionAppended ==
    <<" ", "Please provide your response in valid", " ", "JSON", " ", "format.">>

\* "Please provide your response in valid JSON format."
JsonInstruction == Tail(JsonInstructionAppended)

(***************************************************************************)
(* Messages, content items, keyword arguments                              *)
(***************************************************************************)
StrContent(s) == [kind |-> "str", text |-> s, items |-> <<>>]
ListContent(its) == [kind |-> "list", text |-> <<>>, items |-> its]
TextItem(s) == [type |-> "text", text |-> s]
MediaItem(t) == [type |-> t, text |-> <<>>]
Msg(r, c) == [role |-> r, content |-> c]

\* dict operations on a set of [key, value] pairs
HasKey(d, k) == \E p \in d : p.key = k
Get(d, k) == (CHOOSE p \in d : p.key = k).value
Pop(d, k) == {p \in d : p.key # k}

\* values of keyword arguments: a dict {"type": t} or a plain scalar
DictValue(t) == [isdict |-> TRUE, type |-> t]
Scalar(t) == [isdict |-> FALSE, type |-> t]

(***************************************************************************)
(* ChatCompletion._process_capabilities                                    *)
(***************************************************************************)
RECURSIVE FirstSystem(_, _)
\* index of the first message with role "system" at or after i, 0 if none
FirstSystem(msgs, i) ==
    IF i > Len(msgs) THEN 0
    ELSE IF msgs[i].role = "system" THEN i
    ELSE FirstSystem(msgs, i + 1)

\* is_json_mode and not provider.json_mode_support
JsonDowngrade(provider, kwargs) ==
    /\ HasKey(kwargs, "response_format")
    /\ Get(kwargs, "response_format").isdict
    /\ Get(kwargs, "response_format").type = "json_object"
    /\ ~provider.json_mode_support

\* mutant of ProcessedKwargs: response_format is removed from every request
ProcessedKwargsPopped(provider, kwargs) == Pop(kwargs, "response_format")

\* processed_kwargs
ProcessedKwargs(provider, kwargs) ==
    IF JsonDowngrade(provider, kwargs) THEN Pop(kwargs, "response_format") ELSE kwargs

\* The system-message step of the JSON downgrade. Returns
\*   raised    msg.get("content", "").lower() was applied to a list
\*   messages  the local variable `messages` after the step
\*   caller    the caller's list object after the step (msg["content"] += ...
\*             changes the caller's dictionary in place)
JsonStep(provider, messages, kwargs) ==
    LET i == FirstSystem(messages, 1) IN
    IF ~JsonDowngrade(provider, kwargs)
    THEN [raised |-> FALSE, messages |-> messages, caller |-> messages]
    ELSE IF i = 0
    THEN [raised |-> FALSE,
          messages |-> <<Msg("system", StrContent(JsonInstruction))>> \o messages,
          caller |-> messages]
    ELSE IF messages[i].content.kind = "list"
    THEN [raised |-> TRUE, messages |-> messages, caller |-> messages]
    ELSE IF ContainsJson(Lower(messages[i].content.text))
    THEN [raised |-> FALSE, messages |-> messages, caller |-> messages]
    ELSE LET upd == [messages EXCEPT ![i].content.text = @ \o JsonInstructionAppended]
         IN [raised |-> FALSE, messages |-> upd, caller |-> upd]

\* mutant of StreamStep: the streaming check is missing
StreamStepKept(provider, stream) == stream

\* stream after the streaming check
StreamStep(provider, stream) == stream /\ provider.streaming_support

IsImage(item) == item.type = "image_url" \/ item.type = "image"
IsAudio(item) == item.type \in {"audio_url", "audio"}

HasImageContent(messages) ==
    \E m \in DOMAIN messages :
        /\ messages[m].content.kind = "list"
        /\ \E k \in DOMAIN messages[m].content.items : IsImage(messages[m].content.items[k])

HasAudioContent(messages) ==
    \E m \in DOMAIN messages :
        /\ messages[m].content.kind = "list"
        /\ \E k \in DOMAIN messages[m].content.items : IsAudio(messages[m].content.items[k])

RECURSIVE TextContent(_)
\* text_content: every text item's text followed by "\n", in order
TextContent(items) ==
    IF items = <<>> THEN <<>>
    ELSE (IF Head(items).type = "text" THEN Head(items).text \o <<"\n">> ELSE <<>>)
         \o TextContent(Tail(items))

RECURSIVE RemoveImages(_)
\* the loop that rebuilds the messages when image content was found
RemoveImages(messages) ==
    IF messages = <<>> THEN <<>>
    ELSE LET message == Head(messages)
             text_content == TextContent(message.content.items)
         IN (IF message.content.kind = "list"
             THEN IF text_content # <<>>
                  THEN <<[message EXCEPT !.content = StrContent(Strip(text_content))]>>
                  ELSE <<>>
             ELSE <<message>>)
            \o RemoveImages(Tail(messages))

\* mutant of VisionStep: the image content is never removed
VisionStepSkipped(provider, messages) == messages

VisionStep(provider, messages) ==
    IF ~provider.vision_support /\ HasImageContent(messages)
    THEN RemoveImages(messages)
    ELSE messages

FilteredContent(items) == SelectSeq(items, LAMBDA item : ~IsAudio(item))

RECURSIVE RemoveAudio(_)
\* the loop that rebuilds the messages when audio content was found
RemoveAudio(messages) ==
    IF messages = <<>> THEN <<>>
    ELSE LET message == Head(messages)
             filtered_content == FilteredContent(message.content.items)
             text_content == TextContent(message.content.items)
         IN (IF message.content.kind = "list"
             THEN IF filtered_content # <<>>
                  THEN <<[message EXCEPT !.content = ListContent(filtered_content)]>>
                  ELSE IF /\ \E k \in DOMAIN message.content.items :
                                  message.content.items[k].type = "text"
                          /\ text_content # <<>>
                  THEN <<[message EXCEPT !.content = StrContent(Strip(text_content))]>>
                  ELSE <<>>
             ELSE <<message>>)
            \o RemoveAudio(Tail(messages))

AudioStep(provider, messages) ==
    IF ~provider.audio_input_support /\ HasAudioContent(messages)
    THEN RemoveAudio(messages)
    ELSE messages

\* warnings.warn calls, in the order they are issued
Warnings(provider, messages, stream, kwargs) ==
    LET js == JsonStep(provider, messages, kwargs)
        vs == VisionStep(provider, js.messages)
    IN (IF JsonDowngrade(provider, kwargs) THEN <<"json_mode">> ELSE <<>>)
       \o (IF js.raised THEN <<>>
           ELSE (IF stream /\ ~provider.streaming_support THEN <<"streaming">> ELSE <<>>)
                \o (IF ~provider.vision_support /\ HasImageContent(js.messages)
                    THEN <<"vision">> ELSE <<>>)
                \o (IF ~provider.audio_input_support /\ HasAudioContent(vs)
                    THEN <<"audio">> ELSE <<>>))

\* The whole method. `raised` tells that it ended with AttributeError; then
\* messages, stream and kwargs hold the values of the locals at that point.
ProcessCapabilities(provider, messages, stream, kwargs) ==
    LET js == JsonStep(provider, messages, kwargs) IN
    [raised   |-> js.raised,
     messages |-> IF js.raised THEN js.messages
                  ELSE AudioStep(provider, VisionStep(provider, js.messages)),
     stream   |-> IF js.raised THEN stream ELSE StreamStep(provider, stream),
     kwargs   |-> ProcessedKwargs(provider, kwargs),
     warnings |-> Warnings(provider, messages, stream, kwargs),
     caller   |-> js.caller]

(***************************************************************************)
(* Model identifiers, validators, provider registry (collaborators)        *)
(***************************************************************************)
\* provider tags the registry knows
Providers == {"a", "b"}

\* "a/m", "b/m" and three malformed identifiers
ModelA == <<"a", "/", "m">>
ModelB == <<"b", "/", "m">>
NoSeparator == <<"a", "m">>
UnknownProvider == <<"z", "/", "m">>
EmptyName == <<"a", "/">>

Separators(id) == {i \in DOMAIN id : id[i] = "/"}

\* the provider tag and the bare model name of an identifier with a separator
ParseModelName(id) ==
    LET i == CHOOSE j \in Separators(id) : \A k \in Separators(id) : j <= k
    IN [provider |-> SubSeq(id, 1, i - 1), model_name |-> SubSeq(id, i + 1, Len(id))]

\* validate_model_name does not raise
ValidModelName(id) ==
    /\ Cardinality(Separators(id)) = 1
    /\ \E t \in Providers : ParseModelName(id).provider = <<t>>
    /\ ParseModelName(id).model_name # <<>>

Roles == {"system", "user", "assistant", "tool", "function"}
ItemTypes == {"text", "image", "image_url", "audio", "audio_url"}

\* validate_messages does not raise
ValidMessages(msgs) ==
    /\ msgs # <<>>
    /\ \A m \in DOMAIN msgs :
          /\ msgs[m].role \in Roles
          /\ msgs[m].content.kind \in {"str", "list"}
          /\ \A k \in DOMAIN msgs[m].content.items :
                msgs[m].content.items[k].type \in ItemTypes

\* Optional[List[str]]
NoneList == [isNone |-> TRUE, list |-> <<>>]
SomeList(l) == [isNone |-> FALSE, list |-> l]
\* truth value of an Optional[list]
Truthy(ol) == ~ol.isNone /\ ol.list # <<>>

\* error kinds a provider call can end with, and the default policy
ErrorKinds == {"RateLimited", "AuthError"}
DefaultRetriable == {"RateLimited", "Timeout", "ServerError"}

\* Optional[Dict] for fallback_config: None, {} or {"retriable_errors": S}
NoneConfig == [isNone |-> TRUE, dict |-> {}]
SomeConfig(d) == [isNone |-> FALSE, dict |-> d]
RetriableErrors(S) == [key |-> "retriable_errors", value |-> S]

\* FallbackConfig(**d)
FallbackConfig(d) ==
    [isNone |-> FALSE,
     retriable_errors |-> IF HasKey(d, "retriable_errors")
                          THEN Get(d, "retriable_errors") ELSE DefaultRetriable]
NoFbConfig == [isNone |-> TRUE, retriable_errors |-> {}]

\* capability flags of a provider
Caps(j, s, v, a) ==
    [json_mode_support |-> j, streaming_support |-> s,
     vision_support |-> v, audio_input_support |-> a]
AllCaps == Caps(TRUE, TRUE, TRUE, TRUE)
NoCaps == Caps(FALSE, FALSE, FALSE, FALSE)
CapabilitySets ==
    {Caps(j, s, v, a) : j \in BOOLEAN, s \in BOOLEAN, v \in BOOLEAN, a \in BOOLEAN}

(***************************************************************************)
(* State                                                                   *)
(***************************************************************************)
VARIABLES
    entry,              \* "create" or "acreate"
    model,              \* argument model
    messages,           \* argument messages: the caller's list object
    stream,             \* argument stream (its truth value)
    streamIsBool,       \* whether the stream argument is a bool
    fallback_models,    \* argument fallback_models
    fallback_config,    \* argument fallback_config
    retries,            \* argument retries
    kwargs,             \* **kwargs
    capsOf,             \* capability flags of every registered provider
    original,           \* the caller's messages as they were when the call began
    pc,                 \* position in create / acreate
    fb_config,          \* local fb_config
    effective_fallback_models,
    provider,           \* what get_provider_with_fallbacks returned
    model_name,
    processed,          \* messages, stream, processed_kwargs after _process_capabilities
    warned,             \* warnings issued by _process_capabilities
    call,               \* arguments of provider.create_chat_completion
    idx,                \* orchestrator: position in the candidate chain
    attempts,           \* orchestrator: provider calls made, in order
    inflight,           \* provider calls started and not finished
    errors,             \* orchestrator: per-candidate error records
    result,             \* what the call returned or raised
    registry,           \* provider tags whose client has been constructed
    first,              \* what the caller saw of an earlier call with equal arguments
    chunks,             \* the chunk sequence of a streamed response
    lock,               \* registry: the orchestration holding the registry's lock, 0 if free
    resolving,          \* registry: every orchestration's position in resolve
    constructed,        \* registry: provider clients constructed so far, per tag
    cached              \* registry: the client the registry holds, per tag (0: none)

argvars == <<entry, model, stream, streamIsBool, fallback_models, fallback_config,
             retries, kwargs, capsOf, original, first>>
facadevars == <<fb_config, effective_fallback_models, provider, model_name>>
normvars == <<processed, warned>>
orchvars == <<idx, attempts, inflight, errors>>
resolvevars == <<lock, resolving, constructed, cached>>
\* what no step of a call changes
fixedvars == <<argvars, resolvevars>>
vars == <<argvars, messages, pc, facadevars, normvars, call, orchvars, result, registry,
          chunks, resolvevars>>

\* values of locals that are not bound yet
NoProvider == [caps |-> NoCaps, candidates |-> <<>>, policy |-> {}]
NoRequest == [messages |-> <<>>, stream |-> FALSE, kwargs |-> {}]
NoCall == [made |-> FALSE, how |-> "", model |-> <<>>, messages |-> <<>>,
           stream |-> FALSE, kwargs |-> {}]
NoResult == [kind |-> "none", error |-> "", from |-> 0, errors |-> <<>>]
\* the orchestrations that may resolve providers at the same time, and the
\* state of one that is not resolving
Orchestrations == 1..MaxOrchestrations
Idle == [pc |-> "idle", todo |-> <<>>, handle |-> 0, got |-> <<>>]
NoChunks == [from |-> <<>>, state |-> "none", error |-> ""]
NoFirst == [set |-> FALSE, rejected |-> FALSE, chain |-> NoneList, processed |-> NoRequest,
            warned |-> <<>>, call |-> NoCall, error |-> ""]

\* sequences over S of length lo..hi
SeqsOf(S, lo, hi) == UNION {[1..n -> S] : n \in lo..hi}

(***************************************************************************)
(* Inputs of the call-level specification                                  *)
(***************************************************************************)
SystemText == Msg("system", StrContent(<<"a">>))
SystemList == Msg("system", ListContent(<<TextItem(<<"a">>)>>))
UserText == Msg("user", StrContent(<<"a">>))
UserImage == Msg("user", ListContent(<<TextItem(<<"a">>), MediaItem("image_url")>>))

CallConversations ==
    {<<SystemText, UserImage>>, <<SystemList, UserText>>,
     <<>>, <<Msg("narrator", StrContent(<<"a">>))>>}

JsonFormat == [key |-> "response_format", value |-> DictValue("json_object")]
TextFormat == [key |-> "response_format", value |-> DictValue("text")]
Temperature == [key |-> "temperature", value |-> Scalar("0.7")]

CallKwargs == {{}, {JsonFormat, Temperature}}

ModelIdentifiers == {ModelA, ModelB, NoSeparator, UnknownProvider, EmptyName}
FallbackIdentifiers == {ModelA, ModelB, NoSeparator}

FallbackLists ==
    {NoneList} \cup {SomeList(l) : l \in SeqsOf(FallbackIdentifiers, 0, MaxFallbacks)}

FallbackConfigs ==
    {NoneConfig, SomeConfig({}),
     SomeConfig({RetriableErrors({"AuthError"})}),
     SomeConfig({RetriableErrors({"RateLimited", "AuthError"})})}

Init ==
    /\ entry \in {"create", "acreate"}
    /\ model \in ModelIdentifiers
    /\ messages \in CallConversations
    /\ original = messages
    /\ streamIsBool \in BOOLEAN
    /\ stream \in IF streamIsBool THEN BOOLEAN ELSE {TRUE}
    /\ fallback_models \in FallbackLists
    /\ fallback_config \in FallbackConfigs
    /\ retries \in 0..MaxRetries
    /\ kwargs \in CallKwargs
    /\ capsOf \in [Providers -> {AllCaps, NoCaps}]
    /\ pc = "validate"
    /\ fb_config = NoFbConfig
    /\ effective_fallback_models = NoneList
    /\ provider = NoProvider
    /\ model_name = <<>>
    /\ processed = NoRequest
    /\ warned = <<>>
    /\ call = NoCall
    /\ idx = 0
    /\ attempts = <<>>
    /\ inflight = 0
    /\ errors = <<>>
    /\ result = NoResult
    /\ registry = {}
    /\ first = NoFirst
    /\ chunks = NoChunks
    /\ lock = 0
    /\ resolving = [o \in Orchestrations |-> Idle]
    /\ constructed = [t \in Providers |-> 0]
    /\ cached = [t \in Providers |-> 0]

(***************************************************************************)
(* ChatCompletion.create / ChatCompletion.acreate                          *)
(***************************************************************************)
Raise(e) == [NoResult EXCEPT !.kind = "error", !.error = e]

\* mutant of InputsValid: the loop over fallback_models is missing
InputsValidPrimaryOnly ==
    /\ ValidModelName(model)
    /\ ValidMessages(messages)
    /\ streamIsBool

\* "Validate inputs": no validator raises
InputsValid ==
    /\ ValidModelName(model)
    /\ ValidMessages(messages)
    /\ streamIsBool
    /\ Truthy(fallback_models) =>
          \A i \in DOMAIN fallback_models.list : ValidModelName(fallback_models.list[i])

Validate ==
    /\ pc = "validate"
    /\ IF InputsValid
       THEN pc' = "fallbacks" /\ UNCHANGED result
       ELSE pc' = "raised" /\ result' = Raise("InvalidRequest")
    /\ UNCHANGED <<fixedvars, chunks, messages, facadevars, normvars, call, orchvars, registry>>

\* mutant of FbConfig: the caller's fallback_config is dropped
FbConfigDropped(config) == NoFbConfig

\* fb_config = FallbackConfig(**fallback_config) if fallback_config else None
FbConfig(config) ==
    IF ~config.isNone /\ config.dict # {} THEN FallbackConfig(config.dict) ELSE NoFbConfig

\* [primary] * n
Repeat(primary, n) == [i \in 1..n |-> primary]

\* mutant of EffectiveFallbackModels: the retries are appended, not prepended
EffectiveFallbackModelsAppended(primary, fallbacks, n) ==
    IF n > 0
    THEN IF fallbacks.isNone
         THEN SomeList(Repeat(primary, n))
         ELSE SomeList(fallbacks.list \o Repeat(primary, n))
    ELSE fallbacks

\* "Add retries by prepending the primary model to fallback_models"
EffectiveFallbackModels(primary, fallbacks, n) ==
    IF n > 0
    THEN IF fallbacks.isNone
         THEN SomeList(Repeat(primary, n))
         ELSE SomeList(Repeat(primary, n) \o fallbacks.list)
    ELSE fallbacks

PrepareFallbacks ==
    /\ pc = "fallbacks"
    /\ fb_config' = FbConfig(fallback_config)
    /\ effective_fallback_models' = EffectiveFallbackModels(model, fallback_models, retries)
    /\ pc' = "get_provider"
    /\ UNCHANGED <<fixedvars, chunks, messages, provider, model_name, normvars, call, orchvars,
                   result, registry>>

\* the provider tag of a well-formed identifier
ProviderTag(id) == ParseModelName(id).provider[1]

\* get_provider_with_fallbacks(primary_model, fallback_models, fallback_config):
\* a handle with the primary provider's capability flags that drives the
\* primary and then the fallbacks, and the primary's bare model name
GetProviderWithFallbacks(primary, fallbacks, config) ==
    [provider |->
        [caps |-> capsOf[ProviderTag(primary)],
         candidates |-> <<primary>> \o fallbacks.list,
         policy |-> IF config.isNone THEN DefaultRetriable ELSE config.retriable_errors],
     model_name |-> ParseModelName(primary).model_name]

GetProvider ==
    /\ pc = "get_provider"
    /\ LET got == GetProviderWithFallbacks(model, effective_fallback_models, fb_config)
       IN /\ provider' = got.provider
          /\ model_name' = got.model_name
    /\ registry' = registry \cup {ProviderTag(model)}
    /\ pc' = "capabilities"
    /\ UNCHANGED <<fixedvars, chunks, messages, fb_config, effective_fallback_models, normvars,
                   call, orchvars, result>>

\* messages, stream, processed_kwargs = cls._process_capabilities(...)
Capabilities ==
    /\ pc = "capabilities"
    /\ LET r == ProcessCapabilities(provider.caps, messages, stream, kwargs)
       IN /\ messages' = r.caller
          /\ warned' = r.warnings
          /\ IF r.raised
             THEN /\ pc' = "raised"
                  /\ result' = Raise("AttributeError")
                  /\ UNCHANGED processed
             ELSE /\ pc' = "call"
                  /\ processed' = [messages |-> r.messages, stream |-> r.stream,
                                   kwargs |-> r.kwargs]
                  /\ UNCHANGED result
    /\ UNCHANGED <<fixedvars, chunks, facadevars, call, orchvars, registry>>

\* provider.create_chat_completion(messages=messages, model=model_name,
\*                                 stream=stream, **processed_kwargs)
CreateChatCompletion(how) ==
    [made |-> TRUE, how |-> how, model |-> model_name, messages |-> processed.messages,
     stream |-> processed.stream, kwargs |-> processed.kwargs]

CallProvider(how) ==
    /\ pc = "call"
    /\ call' = CreateChatCompletion(how)
    /\ idx' = 1
    /\ pc' = "orchestrate"
    /\ UNCHANGED <<fixedvars, chunks, messages, facadevars, normvars, attempts, inflight, errors,
                   result, registry>>

\* mutant of CreateStreaming: the streaming branch does not return, so the
\* call falls through to the asyncio.run branch and runs the provider again
CreateStreamingFallsThrough ==
    \/ entry = "create" /\ processed.stream /\ CallProvider("run_until_complete")
    \/ /\ entry = "create"
       /\ pc = "returned"
       /\ call.how = "run_until_complete"
       /\ call' = [call EXCEPT !.how = "asyncio.run"]
       /\ idx' = 1
       /\ pc' = "orchestrate"
       /\ UNCHANGED <<fixedvars, chunks, messages, facadevars, normvars, attempts, inflight,
                      errors, result, registry>>

\* create, stream: loop.run_until_complete on a new event loop
CreateStreaming == entry = "create" /\ processed.stream /\ CallProvider("run_until_complete")

\* create, no stream: asyncio.run
CreateBlocking == entry = "create" /\ ~processed.stream /\ CallProvider("asyncio.run")

\* mutant of AcreateAwait: **kwargs is passed on, not **processed_kwargs
AcreateAwaitCallerKwargs ==
    /\ entry = "acreate"
    /\ pc = "call"
    /\ call' = [CreateChatCompletion("await") EXCEPT !.kwargs = kwargs]
    /\ idx' = 1
    /\ pc' = "orchestrate"
    /\ UNCHANGED <<fixedvars, chunks, messages, facadevars, normvars, attempts, inflight, errors,
                   result, registry>>

\* acreate: await
AcreateAwait == entry = "acreate" /\ CallProvider("await")

(***************************************************************************)
(* The fallback orchestration behind provider.create_chat_completion       *)
(***************************************************************************)
\* the policy's classification of a provider error
Retryable(policy, e) == e \in policy

\* The request for one candidate: the request the handle was called with,
\* normalized against that candidate's own capability flags
CandidateRequest(candidate) ==
    ProcessCapabilities(capsOf[ProviderTag(candidate)], call.messages, call.stream,
                        call.kwargs)

Attempt(candidate, r) ==
    [candidate |-> candidate, model |-> ParseModelName(candidate).model_name,
     messages |-> r.messages, stream |-> r.stream, kwargs |-> r.kwargs,
     outcome |-> "pending"]

\* resolve the next candidate, normalize for it and start its provider call
StartAttempt ==
    /\ pc = "orchestrate"
    /\ idx <= Len(provider.candidates)
    /\ inflight = 0
    /\ LET candidate == provider.candidates[idx] IN
       IF ~ValidModelName(candidate)
       THEN /\ pc' = "raised"
            /\ result' = Raise("InvalidModelIdentifier")
            /\ UNCHANGED <<attempts, inflight, registry>>
       ELSE IF CandidateRequest(candidate).raised
       THEN /\ pc' = "raised"
            /\ result' = Raise("AttributeError")
            /\ registry' = registry \cup {ProviderTag(candidate)}
            /\ UNCHANGED <<attempts, inflight>>
       ELSE /\ pc' = "awaiting"
            /\ attempts' = Append(attempts, Attempt(candidate, CandidateRequest(candidate)))
            /\ inflight' = inflight + 1
            /\ registry' = registry \cup {ProviderTag(candidate)}
            /\ UNCHANGED result
    /\ UNCHANGED <<fixedvars, chunks, messages, facadevars, normvars, call, idx, errors>>

Finish(outcome) == [attempts EXCEPT ![Len(attempts)].outcome = outcome]

\* the candidate answers: its response is the result, or, for a streamed
\* request, its first chunk is there and its chunk sequence is the result;
\* chunks.from records which attempt every chunk handed to the caller is from
AttemptSucceeds ==
    /\ pc = "awaiting"
    /\ attempts' = Finish("ok")
    /\ inflight' = inflight - 1
    /\ result' = [NoResult EXCEPT
                    !.kind = IF attempts[Len(attempts)].stream THEN "stream" ELSE "response",
                    !.from = idx]
    /\ chunks' = IF attempts[Len(attempts)].stream
                 THEN [from |-> <<Len(attempts)>>, state |-> "open", error |-> ""]
                 ELSE chunks
    /\ pc' = "returned"
    /\ UNCHANGED <<fixedvars, messages, facadevars, normvars, call, idx, errors, registry>>

\* the candidate fails with an error the policy lets fall back
AttemptFailsRetryable ==
    /\ pc = "awaiting"
    /\ \E e \in ErrorKinds :
          /\ Retryable(provider.policy, e)
          /\ attempts' = Finish(e)
          /\ errors' = Append(errors, [candidate |-> provider.candidates[idx], error |-> e])
    /\ inflight' = inflight - 1
    /\ idx' = idx + 1
    /\ pc' = "orchestrate"
    /\ UNCHANGED <<fixedvars, chunks, messages, facadevars, normvars, call, result, registry>>

\* the candidate fails with an error the policy does not let fall back
AttemptFailsFatal ==
    /\ pc = "awaiting"
    /\ \E e \in ErrorKinds :
          /\ ~Retryable(provider.policy, e)
          /\ attempts' = Finish(e)
          /\ result' = Raise(e)
    /\ inflight' = inflight - 1
    /\ pc' = "raised"
    /\ UNCHANGED <<fixedvars, chunks, messages, facadevars, normvars, call, idx, errors, registry>>

\* mutant of Exhausted: the failure carries the last error only
ExhaustedLastErrorOnly ==
    /\ pc = "orchestrate"
    /\ idx > Len(provider.candidates)
    /\ result' = [Raise("AggregateFallbackFailure") EXCEPT
                    !.errors = SubSeq(errors, Len(errors), Len(errors))]
    /\ pc' = "raised"
    /\ UNCHANGED <<fixedvars, chunks, messages, facadevars, normvars, call, orchvars, registry>>

\* every candidate failed: the aggregate failure carries the error records
Exhausted ==
    /\ pc = "orchestrate"
    /\ idx > Len(provider.candidates)
    /\ result' = [Raise("AggregateFallbackFailure") EXCEPT !.errors = errors]
    /\ pc' = "raised"
    /\ UNCHANGED <<fixedvars, chunks, messages, facadevars, normvars, call, orchvars, registry>>

\* the accepted candidate's provider call yields one more chunk
YieldChunk ==
    /\ pc = "returned"
    /\ chunks.state = "open"
    /\ Len(chunks.from) < MaxChunks
    /\ chunks' = [chunks EXCEPT !.from = Append(@, idx)]
    /\ UNCHANGED <<fixedvars, messages, pc, facadevars, normvars, call, orchvars, result,
                   registry>>

\* the provider call is complete: the chunk sequence ends
StreamEnds ==
    /\ pc = "returned"
    /\ chunks.state = "open"
    /\ chunks' = [chunks EXCEPT !.state = "ended"]
    /\ UNCHANGED <<fixedvars, messages, pc, facadevars, normvars, call, orchvars, result,
                   registry>>

\* mutant of StreamFails: a retryable failure in mid-stream moves on to the
\* next candidate
StreamFailsFallsBack ==
    /\ pc = "returned"
    /\ chunks.state = "open"
    /\ \E e \in ErrorKinds :
          /\ Retryable(provider.policy, e)
          /\ errors' = Append(errors, [candidate |-> provider.candidates[idx], error |-> e])
    /\ idx' = idx + 1
    /\ pc' = "orchestrate"
    /\ UNCHANGED <<fixedvars, chunks, messages, facadevars, normvars, call, attempts,
                   inflight, result, registry>>

\* the provider fails in mid-stream: the chunk sequence ends with that error,
\* whatever the policy says of it, and no other candidate is tried
StreamFails ==
    /\ pc = "returned"
    /\ chunks.state = "open"
    /\ \E e \in ErrorKinds : chunks' = [chunks EXCEPT !.state = "failed", !.error = e]
    /\ UNCHANGED <<fixedvars, messages, pc, facadevars, normvars, call, orchvars, result,
                   registry>>

\* A call through create is over; the caller makes it once more, with
\* arguments equal to the ones it passed before, through acreate. `first` keeps
\* what the finished call did: whether validation rejected it, the fallback
\* chain, the normalized request and the warnings, the arguments of the
\* provider call, and the error raised before any provider call.
OtherEntry ==
    /\ pc \in {"returned", "raised"}
    /\ entry = "create"
    /\ ~first.set
    /\ first' = [set |-> TRUE,
                 rejected |-> (pc = "raised" /\ result = Raise("InvalidRequest")),
                 chain |-> effective_fallback_models,
                 processed |-> processed,
                 warned |-> warned,
                 call |-> [call EXCEPT !.how = ""],
                 error |-> IF pc = "raised" /\ ~call.made THEN result.error ELSE ""]
    /\ entry' = "acreate"
    /\ messages' = original
    /\ pc' = "validate"
    /\ fb_config' = NoFbConfig
    /\ effective_fallback_models' = NoneList
    /\ provider' = NoProvider
    /\ model_name' = <<>>
    /\ processed' = NoRequest
    /\ warned' = <<>>
    /\ call' = NoCall
    /\ idx' = 0
    /\ attempts' = <<>>
    /\ inflight' = 0
    /\ errors' = <<>>
    /\ result' = NoResult
    /\ chunks' = NoChunks
    /\ UNCHANGED <<model, stream, streamIsBool, fallback_models, fallback_config,
                   retries, kwargs, capsOf, original, registry, resolvevars>>

Next ==
    \/ Validate
    \/ PrepareFallbacks
    \/ GetProvider
    \/ Capabilities
    \/ CreateStreaming
    \/ CreateBlocking
    \/ AcreateAwait
    \/ StartAttempt
    \/ AttemptSucceeds
    \/ AttemptFailsRetryable
    \/ AttemptFailsFatal
    \/ Exhausted
    \/ YieldChunk
    \/ StreamEnds
    \/ StreamFails

Spec == Init /\ [][Next]_vars

\* the calls of Spec, where a call through create may be followed by the
\* same call through acreate
NextTwice == Next \/ OtherEntry

SpecTwice == Init /\ [][NextTwice]_vars

(***************************************************************************)
(* The specification of _process_capabilities alone: the call has reached  *)
(* the capability step with any capability flags, any conversation within  *)
(* the bounds, either stream flag and any of the keyword-argument sets.    *)
(***************************************************************************)
ItemPool ==
    {TextItem(<<"a">>), TextItem(<<" ">>), MediaItem("image_url"), MediaItem("audio_url")}

\* messages whose content holds exactly w content items (w = 0: string content)
MessagesOfWeight(w) ==
    IF w = 0
    THEN {Msg("system", StrContent(<<"a">>)), Msg("system", StrContent(<<"JSON">>)),
          Msg("user", StrContent(<<"a">>))}
    ELSE {Msg("user", ListContent(its)) : its \in [1..w -> ItemPool]}
         \cup (IF w = 1 THEN {SystemList} ELSE {})

RECURSIVE ConversationsOf(_, _)
\* conversations of exactly n messages holding at most `budget` content items
ConversationsOf(n, budget) ==
    IF n = 0 THEN {<<>>}
    ELSE UNION {{<<m>> \o c : m \in MessagesOfWeight(w),
                              c \in ConversationsOf(n - 1, budget - w)} :
                w \in 0..budget}

Conversations == UNION {ConversationsOf(n, MaxItems) : n \in 1..MaxMsgs}

NormKwargs == {{Temperature}, {JsonFormat, Temperature}, {TextFormat}}

InitNorm ==
    /\ messages \in Conversations
    /\ original = messages
    /\ entry = "create"
    /\ model = ModelA
    /\ streamIsBool = TRUE
    /\ stream \in BOOLEAN
    /\ fallback_models = NoneList
    /\ fallback_config = NoneConfig
    /\ retries = 0
    /\ kwargs \in NormKwargs
    /\ capsOf \in {[t \in Providers |-> c] : c \in CapabilitySets}
    /\ pc = "capabilities"
    /\ fb_config = NoFbConfig
    /\ effective_fallback_models = NoneList
    /\ provider = GetProviderWithFallbacks(model, effective_fallback_models, fb_config).provider
    /\ model_name = GetProviderWithFallbacks(model, effective_fallback_models, fb_config).model_name
    /\ processed = NoRequest
    /\ warned = <<>>
    /\ call = NoCall
    /\ idx = 0
    /\ attempts = <<>>
    /\ inflight = 0
    /\ errors = <<>>
    /\ result = NoResult
    /\ registry = {ProviderTag(model)}
    /\ first = NoFirst
    /\ chunks = NoChunks
    /\ lock = 0
    /\ resolving = [o \in Orchestrations |-> Idle]
    /\ constructed = [t \in Providers |-> 0]
    /\ cached = [t \in Providers |-> 0]

NextNorm == Capabilities

SpecNorm == InitNorm /\ [][NextNorm]_vars

(***************************************************************************)
(* The provider registry under concurrent first use: several orchestrations *)
(* resolve the provider tags of their candidates at the same time. A        *)
(* resolve looks the tag up, constructs the provider client when the        *)
(* registry holds none, stores it and returns the client the registry       *)
(* holds; the registry's lock makes the three steps one critical section.   *)
(***************************************************************************)
\* the calls' own variables, which resolving leaves alone
callvars == <<argvars, messages, pc, facadevars, normvars, call, orchvars, result, chunks>>

\* the provider tags one orchestration resolves, in order
ResolveChains == {<<"a">>, <<"a", "a">>, <<"a", "b">>, <<"b", "a">>}

InitResolve ==
    /\ entry = "acreate"
    /\ model = ModelA
    /\ messages = <<UserText>>
    /\ original = messages
    /\ streamIsBool = TRUE
    /\ stream = FALSE
    /\ fallback_models = NoneList
    /\ fallback_config = NoneConfig
    /\ retries = 0
    /\ kwargs = {}
    /\ capsOf = [t \in Providers |-> AllCaps]
    /\ pc = "get_provider"
    /\ fb_config = NoFbConfig
    /\ effective_fallback_models = NoneList
    /\ provider = NoProvider
    /\ model_name = <<>>
    /\ processed = NoRequest
    /\ warned = <<>>
    /\ call = NoCall
    /\ idx = 0
    /\ attempts = <<>>
    /\ inflight = 0
    /\ errors = <<>>
    /\ result = NoResult
    /\ registry = {}
    /\ first = NoFirst
    /\ chunks = NoChunks
    /\ lock = 0
    /\ resolving \in [Orchestrations -> {[Idle EXCEPT !.todo = c] : c \in ResolveChains}]
    /\ constructed = [t \in Providers |-> 0]
    /\ cached = [t \in Providers |-> 0]

\* mutant of ResolveAcquire: resolve does not wait for the registry's lock
ResolveAcquireUnlocked(o) ==
    /\ resolving[o].pc = "idle"
    /\ resolving[o].todo # <<>>
    /\ lock' = o
    /\ resolving' = [resolving EXCEPT ![o].pc = "lookup"]
    /\ UNCHANGED <<callvars, registry, constructed, cached>>

\* resolve(tag) begins: take the registry's lock
ResolveAcquire(o) ==
    /\ resolving[o].pc = "idle"
    /\ resolving[o].todo # <<>>
    /\ lock = 0
    /\ lock' = o
    /\ resolving' = [resolving EXCEPT ![o].pc = "lookup"]
    /\ UNCHANGED <<callvars, registry, constructed, cached>>

\* look the tag up: a client the registry holds is the one to return
ResolveLookup(o) ==
    /\ resolving[o].pc = "lookup"
    /\ LET tag == Head(resolving[o].todo) IN
       resolving' = IF cached[tag] # 0
                    THEN [resolving EXCEPT ![o].pc = "release", ![o].handle = cached[tag]]
                    ELSE [resolving EXCEPT ![o].pc = "construct"]
    /\ UNCHANGED <<callvars, registry, lock, constructed, cached>>

\* first use: construct the provider client of the tag
ResolveConstruct(o) ==
    /\ resolving[o].pc = "construct"
    /\ LET tag == Head(resolving[o].todo) IN
       /\ constructed' = [constructed EXCEPT ![tag] = @ + 1]
       /\ resolving' = [resolving EXCEPT ![o].pc = "store", ![o].handle = constructed[tag] + 1]
    /\ UNCHANGED <<callvars, registry, lock, cached>>

\* keep the constructed client in the registry
ResolveStore(o) ==
    /\ resolving[o].pc = "store"
    /\ LET tag == Head(resolving[o].todo) IN
       /\ cached' = [cached EXCEPT ![tag] = resolving[o].handle]
       /\ registry' = registry \cup {tag}
    /\ resolving' = [resolving EXCEPT ![o].pc = "release"]
    /\ UNCHANGED <<callvars, lock, constructed>>

\* resolve returns the handle and gives the lock back
ResolveRelease(o) ==
    /\ resolving[o].pc = "release"
    /\ lock' = 0
    /\ resolving' = [resolving EXCEPT
                        ![o].pc = "idle",
                        ![o].todo = Tail(@),
                        ![o].handle = 0,
                        ![o].got = Append(@, [tag |-> Head(resolving[o].todo),
                                              handle |-> resolving[o].handle])]
    /\ UNCHANGED <<callvars, registry, constructed, cached>>

NextResolve ==
    \E o \in Orchestrations :
        \/ ResolveAcquire(o)
        \/ ResolveLookup(o)
        \/ ResolveConstruct(o)
        \/ ResolveStore(o)
        \/ ResolveRelease(o)

SpecResolve == InitResolve /\ [][NextResolve]_vars

(***************************************************************************)
(* Properties of the call (checked under Spec)                             *)
(***************************************************************************)
\* some argument of the call is one the validators reject
SomeInputInvalid ==
    \/ ~ValidModelName(model)
    \/ ~ValidMessages(original)
    \/ ~streamIsBool
    \/ \E i \in DOMAIN fallback_models.list : ~ValidModelName(fallback_models.list[i])

\* C1: a call with an invalid model identifier, message list, stream flag or
\* fallback identifier never gets past validation: it ends with a validation
\* error, no provider is resolved and no provider call is made.
C1_InvalidInputFailsBeforeAnyProviderCall ==
    SomeInputInvalid =>
        /\ pc \in {"validate", "raised"}
        /\ pc = "raised" => result = Raise("InvalidRequest")
        /\ provider = NoProvider
        /\ registry = {}
        /\ ~call.made
        /\ attempts = <<>>
        /\ inflight = 0

\* C1 witness: the primary model is fine, a fallback identifier is malformed,
\* and the call has ended with the validation error
C1_Witness ==
    /\ ValidModelName(model)
    /\ ValidMessages(original)
    /\ streamIsBool
    /\ \E i \in DOMAIN fallback_models.list : ~ValidModelName(fallback_models.list[i])
    /\ pc = "raised"
    /\ result = Raise("InvalidRequest")

\* the call got past validation and computed effective_fallback_models
ChainBuilt ==
    /\ pc \notin {"validate", "fallbacks"}
    /\ ~(pc = "raised" /\ result = Raise("InvalidRequest"))

\* [primary] * retries + fallback_models, written out position by position
ExpectedFallbackChain ==
    [i \in 1..(retries + Len(fallback_models.list)) |->
        IF i <= retries THEN model ELSE fallback_models.list[i - retries]]

\* C2: the fallback chain handed to get_provider_with_fallbacks is the primary
\* repeated `retries` times followed by the caller's fallback_models in their
\* order; with retries = 0 it is the caller's fallback_models argument itself.
C2_FallbackChainIsRetriesThenFallbacks ==
    ChainBuilt =>
        /\ effective_fallback_models.list = ExpectedFallbackChain
        /\ retries = 0 => effective_fallback_models = fallback_models
        /\ retries > 0 => ~effective_fallback_models.isNone
        /\ provider # NoProvider =>
              provider.candidates = <<model>> \o effective_fallback_models.list

\* C2 witness: two retries ahead of one caller-supplied fallback, handed over
C2_Witness ==
    /\ pc = "capabilities"
    /\ retries = 2
    /\ fallback_models = SomeList(<<ModelB>>)
    /\ model = ModelA
    /\ effective_fallback_models = SomeList(<<ModelA, ModelA, ModelB>>)

\* indexes of the attempts that ended with a response
Successes == {k \in DOMAIN attempts : attempts[k].outcome = "ok"}

\* C3: candidates are attempted in chain order, one at a time, every attempt
\* before the last one has failed, and nothing is attempted after a success:
\* at most one provider call succeeds and its result is the one returned.
C3_SequentialFirstSuccessWins ==
    /\ inflight \in {0, 1}
    /\ inflight = Cardinality({k \in DOMAIN attempts : attempts[k].outcome = "pending"})
    /\ Len(attempts) <= Len(provider.candidates)
    /\ \A k \in DOMAIN attempts :
          /\ attempts[k].candidate = provider.candidates[k]
          /\ k < Len(attempts) => attempts[k].outcome \in ErrorKinds
    /\ Cardinality(Successes) <= 1
    /\ Successes # {} => /\ pc = "returned"
                         /\ result.from = Len(attempts)
                         /\ Successes = {Len(attempts)}
    /\ pc = "returned" => Successes # {}

\* C3 witness: the third candidate answered after two failures
C3_Witness ==
    /\ pc = "returned"
    /\ Len(attempts) = 3
    /\ Len(provider.candidates) > 3
    /\ attempts[3].outcome = "ok"

\* the error kinds the caller's fallback_config lets fall back
CallerPolicy ==
    IF fallback_config.isNone \/ fallback_config.dict = {}
    THEN DefaultRetriable
    ELSE UNION {p.value : p \in {q \in fallback_config.dict : q.key = "retriable_errors"}}

\* C4: an attempt that failed with an error the policy in force classifies as
\* non-retryable is the last attempt of the call, and the call has raised
\* that very error: no later candidate is invoked, however many remain.
C4_NonRetryableErrorAborts ==
    \A k \in DOMAIN attempts :
        (attempts[k].outcome \in ErrorKinds /\ attempts[k].outcome \notin CallerPolicy) =>
            /\ k = Len(attempts)
            /\ pc = "raised"
            /\ result = Raise(attempts[k].outcome)
            /\ inflight = 0

\* C4 witness: the first candidate failed with an authentication error under
\* the default policy while other candidates remained
C4_Witness ==
    /\ fallback_config = NoneConfig
    /\ Len(attempts) = 1
    /\ attempts[1].outcome = "AuthError"
    /\ Len(provider.candidates) > 1
    /\ pc = "raised"

\* every candidate of the chain was attempted and failed retryably
AllCandidatesFailed ==
    /\ provider.candidates # <<>>
    /\ Len(attempts) = Len(provider.candidates)
    /\ \A k \in DOMAIN attempts : attempts[k].outcome \in provider.policy

\* C5: when every candidate of a chain of N candidates has failed with a
\* retryable error the call can only raise, and what it raises is the
\* aggregate failure with exactly N error records, the k-th being the k-th
\* attempt's candidate and error.
C5_AggregateFailureCarriesEveryError ==
    /\ AllCandidatesFailed =>
          /\ pc \in {"orchestrate", "raised"}
          /\ pc = "raised" =>
                /\ result.error = "AggregateFallbackFailure"
                /\ Len(result.errors) = Len(provider.candidates)
                /\ \A k \in DOMAIN result.errors :
                      /\ result.errors[k].candidate = attempts[k].candidate
                      /\ result.errors[k].error = attempts[k].outcome
    /\ result.error = "AggregateFallbackFailure" => AllCandidatesFailed

\* C5 witness: a chain of three candidates failed with different errors
C5_Witness ==
    /\ pc = "raised"
    /\ result.error = "AggregateFallbackFailure"
    /\ Len(result.errors) = 3
    /\ result.errors[1].error # result.errors[2].error

\* the call of the example: model a, retries = 2, fallback_models = [b]
TwoRetriesOneFallback ==
    /\ model = ModelA
    /\ retries = 2
    /\ fallback_models = SomeList(<<ModelB>>)

\* the first two attempts failed retryably and the third answered
ThirdAttemptAnswers ==
    /\ Len(attempts) = 3
    /\ attempts[1].outcome \in provider.policy
    /\ attempts[2].outcome \in provider.policy
    /\ attempts[3].outcome = "ok"

C7_EveryCandidateGetsFreshNormalization ==
    \A k \in DOMAIN attempts :
        LET fresh == ProcessCapabilities(capsOf[ProviderTag(attempts[k].candidate)],
                                         original, stream, kwargs)
        IN /\ ~fresh.raised
           /\ attempts[k].messages = fresh.messages
           /\ attempts[k].stream = fresh.stream
           /\ attempts[k].kwargs = fresh.kwargs

\* _process_capabilities has returned to create / acreate
Normalized ==
    \/ pc \in {"call", "orchestrate", "awaiting", "returned"}
    \/ pc = "raised" /\ call.made

JsonRequestedUnsupported ==
    /\ \E p \in kwargs : /\ p.key = "response_format"
                         /\ p.value = DictValue("json_object")
    /\ ~provider.caps.json_mode_support

\* neither the vision rule nor the audio rule applies to the request
NoStrippingApplies ==
    /\ provider.caps.vision_support \/ ~HasImageContent(original)
    /\ provider.caps.audio_input_support \/ ~HasAudioContent(original)

\* the text of a message: its string content, or the texts of its text items
RECURSIVE ItemTexts(_)
ItemTexts(items) ==
    IF items = <<>> THEN <<>>
    ELSE (IF Head(items).type = "text" THEN Head(items).text ELSE <<>>)
         \o ItemTexts(Tail(items))
MessageText(m) ==
    IF m.content.kind = "str" THEN m.content.text ELSE ItemTexts(m.content.items)

\* the text mentions JSON in either case
MentionsJson(text) == \E i \in DOMAIN text : text[i] \in {"json", "JSON"}

SystemIndexes(msgs) == {m \in DOMAIN msgs : msgs[m].role = "system"}

\* C8 as claimed: on a JSON-mode downgrade the forwarded parameters are the
\* caller's without response_format, and the conversation is forwarded with a
\* system message asking for JSON: the instruction appended to the existing
\* system message unless it mentions JSON already, or a new system message at
\* position 0 when there is none; the non-system messages are forwarded
\* unchanged and in the same order.
C8_JsonModeDowngrade ==
    (pc # "capabilities" /\ JsonRequestedUnsupported /\ NoStrippingApplies) =>
        /\ pc = "call"
        /\ processed.kwargs = {p \in kwargs : p.key # "response_format"}
        /\ IF SystemIndexes(original) = {}
           THEN processed.messages =
                    <<Msg("system", StrContent(JsonInstruction))>> \o original
           ELSE LET i == CHOOSE m \in SystemIndexes(original) :
                             \A n \in SystemIndexes(original) : m <= n
                IN /\ Len(processed.messages) = Len(original)
                   /\ \A m \in DOMAIN original :
                         original[m].role # "system" => processed.messages[m] = original[m]
                   /\ processed.messages[i].role = "system"
                   /\ MentionsJson(MessageText(processed.messages[i]))
                   /\ IF MentionsJson(MessageText(original[i]))
                      THEN processed.messages[i] = original[i]
                      ELSE MessageText(processed.messages[i]) =
                               MessageText(original[i]) \o JsonInstructionAppended

\* the texts of the text items joined by newlines
RECURSIVE JoinedText(_)
JoinedText(items) ==
    LET texts == SelectSeq(items, LAMBDA item : item.type = "text") IN
    IF texts = <<>> THEN <<>>
    ELSE IF Len(texts) = 1 THEN texts[1].text
    ELSE texts[1].text \o <<"\n">> \o JoinedText(Tail(texts))

RECURSIVE StrippedOfImages(_)
\* every list-form message replaced by its trimmed joined text, or dropped
\* when nothing is left of it
StrippedOfImages(msgs) ==
    IF msgs = <<>> THEN <<>>
    ELSE LET m == Head(msgs)
             text == Strip(JoinedText(m.content.items))
         IN (IF m.content.kind # "list" THEN <<m>>
             ELSE IF text = <<>> THEN <<>>
             ELSE <<[m EXCEPT !.content = StrContent(text)]>>)
            \o StrippedOfImages(Tail(msgs))

\* every list-form message of the conversation holds an image item
EveryListHoldsAnImage(msgs) ==
    \A m \in DOMAIN msgs :
        msgs[m].content.kind = "list" =>
            \E k \in DOMAIN msgs[m].content.items : IsImage(msgs[m].content.items[k])

\* C10 as claimed: for a provider without vision support every message that
\* holds an image item is forwarded with its content replaced by the trimmed
\* newline-joined text of its text items, and a message left with no content
\* is dropped, not forwarded with empty content.
C10_VisionStripping ==
    (/\ pc = "call"
     /\ ~provider.caps.vision_support
     /\ HasImageContent(original)
     /\ EveryListHoldsAnImage(original)) =>
        processed.messages =
            StrippedOfImages(JsonStep(provider.caps, original, kwargs).messages)

\* the vision rule does not apply to the request
NoVisionStripping == provider.caps.vision_support \/ ~HasImageContent(original)

RECURSIVE StrippedOfAudio(_)
\* every message holding audio items rebuilt without them: dropped when no
\* item is left, replaced by the trimmed joined text when only text items are
\* left, kept as a list of the other items otherwise
StrippedOfAudio(msgs) ==
    IF msgs = <<>> THEN <<>>
    ELSE LET m == Head(msgs)
             rest == SelectSeq(m.content.items, LAMBDA item : ~IsAudio(item))
             onlyText == \A k \in DOMAIN rest : rest[k].type = "text"
         IN (IF m.content.kind # "list" \/ rest = m.content.items THEN <<m>>
             ELSE IF rest = <<>> THEN <<>>
             ELSE IF onlyText THEN <<[m EXCEPT !.content = StrContent(Strip(JoinedText(rest)))]>>
             ELSE <<[m EXCEPT !.content = ListContent(rest)]>>)
            \o StrippedOfAudio(Tail(msgs))

\* C11 as claimed: for a provider without audio-input support and a request
\* holding audio items, every audio item is removed; a message left with text
\* items only is forwarded with one plain text string (the texts joined by
\* newlines, trimmed), not with a list; a message left with no item is dropped.
C11_AudioStripping ==
    (/\ pc = "call"
     /\ ~provider.caps.audio_input_support
     /\ HasAudioContent(original)
     /\ NoVisionStripping) =>
        /\ ~HasAudioContent(processed.messages)
        /\ processed.messages =
               StrippedOfAudio(JsonStep(provider.caps, original, kwargs).messages)

\* the parameters ask for JSON mode
AsksJsonObject(params) ==
    \E p \in params : p.key = "response_format" /\ p.value = DictValue("json_object")

\* C12: whatever the capability flags, the request _process_capabilities
\* returns can be served with them: it holds no image item when vision is
\* unsupported, no audio item when audio input is unsupported, stream is
\* false when streaming is unsupported, and response_format does not ask for
\* json_object when JSON mode is unsupported.
C12_OutputSatisfiable ==
    pc = "call" =>
        /\ ~provider.caps.vision_support => ~HasImageContent(processed.messages)
        /\ ~provider.caps.audio_input_support => ~HasAudioContent(processed.messages)
        /\ ~provider.caps.streaming_support => ~processed.stream
        /\ ~provider.caps.json_mode_support => ~AsksJsonObject(processed.kwargs)

\* C12 witness: a request asking for JSON mode and streaming and holding an
\* image and an audio item was normalized for a provider supporting none
C12_Witness ==
    /\ pc = "call"
    /\ provider.caps = NoCaps
    /\ stream
    /\ AsksJsonObject(kwargs)
    /\ HasImageContent(original)
    /\ HasAudioContent(original)
    /\ processed.messages # <<>>

\* the request asks for nothing the provider's capability flags lack
NoMismatch ==
    /\ AsksJsonObject(kwargs) => provider.caps.json_mode_support
    /\ stream => provider.caps.streaming_support
    /\ HasImageContent(original) => provider.caps.vision_support
    /\ HasAudioContent(original) => provider.caps.audio_input_support

\* C13: _process_capabilities applied to a request without any JSON-mode,
\* streaming, vision or audio mismatch returns the messages, the stream flag
\* and the parameters it was given and issues no warning; and applied to
\* what it returned, with the same capability flags, it returns that again,
\* without a warning.
C13_CompliantRequestUnchanged ==
    /\ (pc # "capabilities" /\ NoMismatch) =>
          /\ pc = "call"
          /\ processed = [messages |-> original, stream |-> stream, kwargs |-> kwargs]
          /\ warned = <<>>
    /\ pc = "call" =>
          LET again == ProcessCapabilities(provider.caps, processed.messages,
                                           processed.stream, processed.kwargs)
          IN /\ ~again.raised
             /\ again.messages = processed.messages
             /\ again.stream = processed.stream
             /\ again.kwargs = processed.kwargs
             /\ again.warnings = <<>>

\* C13 witness: a request asking for JSON mode and streaming and holding an
\* image and an audio item came back unchanged from a provider supporting all
C13_Witness ==
    /\ pc = "call"
    /\ NoMismatch
    /\ stream
    /\ AsksJsonObject(kwargs)
    /\ HasImageContent(original)
    /\ HasAudioContent(original)
    /\ processed.messages = original
    /\ warned = <<>>

\* C18 as claimed: _process_capabilities is pure with respect to the caller's
\* data: when it is over, the caller's message list and every message
\* dictionary in it have the contents they had before the call, also on a
\* JSON-mode downgrade with an existing system message.
C18_CallersMessagesUntouched ==
    pc # "capabilities" => messages = original

RECURSIVE ImageMessagesRebuilt(_)
\* the messages holding an image item rebuilt by the vision rule, every other
\* message as it is
ImageMessagesRebuilt(msgs) ==
    IF msgs = <<>> THEN <<>>
    ELSE (IF HasImageContent(<<Head(msgs)>>) THEN RemoveImages(<<Head(msgs)>>)
          ELSE <<Head(msgs)>>)
         \o ImageMessagesRebuilt(Tail(msgs))

\* C19 as claimed: the rules are independent: for a provider without vision
\* support and with audio-input support, vision stripping changes only the
\* messages that hold an image item; every other message, a list-content
\* message with text or audio items included, is forwarded unchanged.
C19_VisionStrippingTouchesImageMessagesOnly ==
    (/\ pc = "call"
     /\ ~provider.caps.vision_support
     /\ provider.caps.audio_input_support
     /\ HasImageContent(original)) =>
        processed.messages =
            ImageMessagesRebuilt(JsonStep(provider.caps, original, kwargs).messages)

\* the warning of the kind was issued
Warned(kind) == \E i \in DOMAIN warned : warned[i] = kind

\* C20 as claimed: content is never removed without the warning of its kind:
\* for a request holding audio items and a provider without audio-input
\* support, whatever its vision support, the audio warning is issued, and
\* the vision warning is issued whenever image items are removed.
C20_RemovedContentIsWarnedAbout ==
    pc = "call" =>
        /\ (HasAudioContent(original) /\ ~provider.caps.audio_input_support) =>
              Warned("audio")
        /\ (HasImageContent(original) /\ ~HasImageContent(processed.messages)) =>
              Warned("vision")

\* C21 as claimed: a request keeps at least one message through
\* normalization: for every non-empty valid conversation and every set of
\* capability flags the message list _process_capabilities returns for the
\* provider call is non-empty, also when vision or audio stripping drops
\* messages.
C21_ForwardedMessagesNonEmpty ==
    (pc = "call" /\ ValidMessages(original)) => processed.messages # <<>>

(***************************************************************************)
(* Further properties of the call (checked under Spec and SpecTwice)       *)
(***************************************************************************)
\* C14 as claimed: a capability mismatch never makes the call fail: for every
\* valid request, a list-form system message included, _process_capabilities
\* returns a request without raising and create / acreate go on to call the
\* provider, so a call with valid arguments raises nothing before that call.
C14_MismatchNeverFailsTheCall ==
    ~SomeInputInvalid =>
        /\ pc = "raised" => call.made
        /\ pc \notin {"validate", "fallbacks", "get_provider", "capabilities"} =>
              processed # NoRequest

C16_NoFallbackAfterFirstChunk ==
    /\ chunks.from # <<>> =>
          /\ pc = "returned"
          /\ inflight = 0
          /\ attempts[Len(attempts)].stream
          /\ attempts[Len(attempts)].outcome = "ok"
          /\ \A k \in DOMAIN chunks.from : chunks.from[k] = Len(attempts)
          /\ \A k \in 1..(Len(attempts) - 1) : attempts[k].outcome \in provider.policy
    /\ chunks.state = "failed" =>
          /\ chunks.from # <<>>
          /\ chunks.error \in ErrorKinds
          /\ result.kind = "stream"
    /\ chunks.state # "none" <=> chunks.from # <<>>

\* C16 witness: the first candidate failed before any chunk, the second one
\* streamed two chunks and then failed with an error the policy would let
\* fall back, and a further candidate was left untried
C16_Witness ==
    /\ Len(attempts) = 2
    /\ attempts[1].outcome \in provider.policy
    /\ chunks.state = "failed"
    /\ chunks.error \in provider.policy
    /\ chunks.from = <<2, 2>>
    /\ Len(provider.candidates) > 2

(***************************************************************************)
(* Properties of the registry (checked under SpecResolve)                  *)
(***************************************************************************)
\* C17: however the orchestrations resolving a provider tag for the first
\* time interleave, the provider client of a tag is constructed at most once,
\* exactly once when a resolve of the tag has returned, and every resolve of
\* the tag, concurrent or later, returns that one client, the one the
\* registry holds.
C17_SingleConstructionPerTag ==
    /\ \A t \in Providers :
          /\ constructed[t] <= 1
          /\ cached[t] # 0 => constructed[t] = 1 /\ cached[t] = 1
          /\ t \in registry <=> cached[t] # 0
    /\ \A o \in Orchestrations : \A k \in DOMAIN resolving[o].got :
          LET r == resolving[o].got[k] IN
          /\ constructed[r.tag] = 1
          /\ r.handle = cached[r.tag]

\* C17 witness: two orchestrations that began without any client constructed
\* have both resolved tag a, one of them twice, with one client constructed
C17_Witness ==
    /\ \A o \in {1, 2} : \E k \in DOMAIN resolving[o].got : resolving[o].got[k].tag = "a"
    /\ \E o \in {1, 2} : Len(resolving[o].got) = 2 /\ resolving[o].got[2].tag = "a"
    /\ constructed["a"] = 1

====
